---- MODULE Spec2Model ----
(***************************************************************************)
(* A model of simulator.py: the ChemicalReactionNetwork constructor, its   *)
(* stability test, and the run_simulation loop, with several runs sharing  *)
(* one network instance.                                                   *)
(***************************************************************************)
EXTENDS Integers, Sequences, FiniteSets, TLC

(* Species identifiers.  The numbers keep the order of the strings         *)
(* "A" < "B" < "U" that sorted() uses.                                     *)
A == 1
B == 2
U == 3

(* Largest total population of an initial configuration of a run alone.    *)
MaxPop == 3

(* Most interactions a run alone performs in the model.                    *)
MaxInteractions == 3

(* The population of each run, and the most interactions of each run, when *)
(* runs interleave on one network.                                         *)
MaxSharedPop == 3
MaxSharedInteractions == 2

(* Largest count in the argument of a run that is handed any tuple of      *)
(* integers.                                                               *)
MaxAnyCount == 2

(* Most interactions of the run started from MajorityStart.                *)
MaxMajorityInteractions == 20

(* The runs that share the network instance.                               *)
Runs == {1, 2}

(* A rule text is a sequence of lines; a line is the sequence of its       *)
(* "->"-separated halves; a half is the sequence of its "+"-separated,     *)
(* stripped tokens.                                                        *)
(* the majority text with a first rule that makes both reactants          *)
(* undecided: "A + B -> U + U"                                             *)
MajorityBothUndecided ==
    << << <<A, B>>, <<U, U>> >>,
       << <<B, A>>, <<B, U>> >>,
       << <<A, U>>, <<A, A>> >>,
       << <<B, U>>, <<B, B>> >> >>

Majority ==
    << << <<A, B>>, <<A, U>> >>,
       << <<B, A>>, <<B, U>> >>,
       << <<A, U>>, <<A, A>> >>,
       << <<B, U>>, <<B, B>> >> >>

Duplicate ==
    << << <<A, B>>, <<A, U>> >>,
       << <<A, B>>, <<B, U>> >> >>

SelfPair ==
    << << <<A, A>>, <<B, B>> >>,
       << <<A, B>>, <<B, B>> >> >>

Shrinking ==
    << << <<A, B>>, <<U>> >>,
       << <<U, U>>, <<U>> >> >>

OneReactant ==
    << << <<A>>, <<B>> >> >>

(* "A + B + U -> A + A" *)
ThreeReactants ==
    << << <<A, B, U>>, <<A, A>> >> >>

(* "A + B": no "->", the split gives one half *)
NoArrow ==
    << << <<A, B>> >> >>

(* "A + B -> A + U -> A + A": two "->", the split gives three halves *)
TwoArrows ==
    << << <<A, B>>, <<A, U>>, <<A, A>> >> >>

(* "B + B -> A + U" *)
Pairing ==
    << << <<B, B>>, <<A, U>> >> >>

RuleTexts == {Majority, Duplicate, SelfPair, Shrinking, OneReactant,
              ThreeReactants, NoArrow, TwoArrows, Pairing}

(* The texts of the networks that interleaving runs share. *)
SharedTexts == {Majority, SelfPair}

MajorityStart == <<10, 10, 0>>

VARIABLES
    crn_string,         \* the rule text handed to the constructor
    build,              \* "new", "ok" (constructed) or "raised"
    species,            \* self.species
    reactions,          \* self.reactions: the defaultdict, key |-> delta
    _minimal_reactants, \* self._minimal_reactants
    pc,                 \* per run: "idle", "loop", "lookup", "missing", "done", "raised"
    initial_config,     \* per run: the argument of run_simulation
    config,             \* per run: the working configuration
    interactions,       \* per run: the interaction counter
    sample,             \* per run: the pair drawn at line 40, until line 41 has used it
                        \* (<<>> otherwise: the name is dead until the next draw)
    result              \* per run: <<numerator, denominator>> of the returned quotient

vars == <<crn_string, build, species, reactions, _minimal_reactants,
          pc, initial_config, config, interactions, sample, result>>

network == <<species, reactions, _minimal_reactants>>

----------------------------------------------------------------------------
(* Helpers *)

Min(a, b) == IF a <= b THEN a ELSE b

RECURSIVE sum(_)
sum(s) == IF s = <<>> THEN 0 ELSE Head(s) + sum(Tail(s))

Range(s) == {s[i] : i \in DOMAIN s}

(* sorted(set(re.findall(...))): the distinct tokens of the text, ascending *)
Tokens(text) ==
    UNION {UNION {Range(text[l][h]) : h \in DOMAIN text[l]} : l \in DOMAIN text}

sorted(S) ==
    CHOOSE s \in [1..Cardinality(S) -> S] :
        \A i, j \in 1..Cardinality(S) : i < j => s[i] < s[j]

\* a set in place of the Counter: a species is counted once however often it occurs
CounterAsSet(sp, names) ==
    [i \in 1..Len(sp) |-> IF sp[i] \in Range(names) THEN 1 ELSE 0]

\* Configuration built from Counter(names) by keyword, over the species order sp
Counter(sp, names) ==
    [i \in 1..Len(sp) |-> Cardinality({j \in DOMAIN names : names[j] = sp[i]})]

(* Configuration(): every field at its default 0 *)
ZeroConfiguration(sp) == [i \in 1..Len(sp) |-> 0]

\* Configuration built from positional args: trailing fields default to 0
Configuration(sp, args) ==
    [i \in 1..Len(sp) |-> IF i <= Len(args) THEN args[i] ELSE 0]

Configuration_add(a, b) == [i \in 1..Min(Len(a), Len(b)) |-> a[i] + b[i]]

Configuration_sub(a, b) == [i \in 1..Min(Len(a), Len(b)) |-> a[i] - b[i]]

----------------------------------------------------------------------------
(* ChemicalReactionNetwork.__init__ *)

(* d[key] = value on a dict *)
SetItem(d, key, value) ==
    [k \in DOMAIN d \cup {key} |-> IF k = key THEN value ELSE d[k]]

(* the delta with the reactants forgotten *)
LineDeltaProductsOnly(sp, line) == Counter(sp, line[2])

(* the delta one line stores under its reactants *)
LineDelta(sp, line) == Configuration_sub(Counter(sp, line[2]), Counter(sp, line[1]))

RECURSIVE ParseReactions(_, _, _)
ParseReactions(sp, lines, acc) ==
    IF lines = <<>> THEN acc
    ELSE ParseReactions(sp, Tail(lines),
                        SetItem(acc, Head(lines)[1], LineDelta(sp, Head(lines))))

(* the keys of the dict in iteration order: the order of first insertion *)
RECURSIVE KeyOrder(_, _)
KeyOrder(lines, acc) ==
    IF lines = <<>> THEN acc
    ELSE KeyOrder(Tail(lines),
                  IF Head(lines)[1] \in Range(acc) THEN acc
                  ELSE Append(acc, Head(lines)[1]))

(* the requirement list computed from the results of the lines *)
MinimalReactantsOfResults(sp, lines) ==
    [k \in 1..Len(lines) |-> Counter(sp, lines[k][2])]

MinimalReactants(sp, lines) ==
    [k \in 1..Len(KeyOrder(lines, <<>>)) |-> Counter(sp, KeyOrder(lines, <<>>)[k])]

(* the unpacking "reactants, results = ..." needs exactly two halves *)
Unpacks(line) == Len(line) = 2

Build ==
    /\ build = "new"
    /\ IF \A l \in DOMAIN crn_string : Unpacks(crn_string[l])
       THEN LET sp == sorted(Tokens(crn_string)) IN
            /\ build' = "ok"
            /\ species' = sp
            /\ reactions' = ParseReactions(sp, crn_string, <<>>)
            /\ _minimal_reactants' = MinimalReactants(sp, crn_string)
       ELSE /\ build' = "raised"
            /\ UNCHANGED network
    /\ UNCHANGED <<crn_string, pc, initial_config, config, interactions, sample, result>>

----------------------------------------------------------------------------
(* ChemicalReactionNetwork.is_stable *)

(* the comparison s <= required_s in place of s < required_s *)
UnderSuppliedOrEqual(c, required_config) ==
    \E i \in 1..Min(Len(c), Len(required_config)) : c[i] <= required_config[i]

UnderSupplied(c, required_config) ==
    \E i \in 1..Min(Len(c), Len(required_config)) : c[i] < required_config[i]

(* is_stable with the quantifiers the wrong way round *)
is_stable_inverted(c) ==
    \E k \in 1..Len(_minimal_reactants) :
        \A i \in 1..Min(Len(c), Len(_minimal_reactants[k])) : c[i] < _minimal_reactants[k][i]

(* is_stable with the requirements taken from the keys the rule mapping   *)
(* holds at the time of the test                                           *)
is_stable_of_current_keys(c) ==
    \A key \in DOMAIN reactions : UnderSupplied(c, Counter(species, key))

is_stable(c) ==
    \A k \in 1..Len(_minimal_reactants) : UnderSupplied(c, _minimal_reactants[k])

----------------------------------------------------------------------------
(* random.sample(population, counts=counts, k=2) *)

accumulate(counts) == [i \in 1..Len(counts) |-> sum(SubSeq(counts, 1, i))]

(* bisect.bisect_right(a, x): 0-based insertion point *)
RECURSIVE bisect_loop(_, _, _, _)
bisect_loop(a, x, lo, hi) ==
    IF lo < hi
    THEN LET mid == (lo + hi) \div 2 IN
         IF x < a[mid + 1] THEN bisect_loop(a, x, lo, mid)
         ELSE bisect_loop(a, x, mid + 1, hi)
    ELSE lo

(* bisect_left in place of bisect_right *)
RECURSIVE bisect_left_loop(_, _, _, _)
bisect_left_loop(a, x, lo, hi) ==
    IF lo < hi
    THEN LET mid == (lo + hi) \div 2 IN
         IF x <= a[mid + 1] THEN bisect_left_loop(a, x, lo, mid)
         ELSE bisect_left_loop(a, x, mid + 1, hi)
    ELSE lo

bisect_left(a, x) == bisect_left_loop(a, x, 0, Len(a))

bisect(a, x) == bisect_loop(a, x, 0, Len(a))

sample_raises(population, counts) ==
    \/ Len(counts) # Len(population)
    \/ Len(counts) = 0
    \/ sum(counts) <= 0
    \/ 2 > sum(counts)

(* two independent draws of a position: the same individual twice is possible *)
SelectionsWithReplacement(total) == (0..(total - 1)) \X (0..(total - 1))

(* the ordered pairs of distinct positions of the expanded population *)
Selections(total) == {p \in (0..(total - 1)) \X (0..(total - 1)) : p[1] # p[2]}

(* the labels of the positions 0 .. total-1 of the expanded population:    *)
(* position s carries population[bisect(cum_counts, s)]                    *)
RECURSIVE Labels(_, _, _, _)
Labels(population, cum_counts, s, total) ==
    IF s >= total THEN <<>>
    ELSE <<population[bisect(cum_counts, s) + 1]>>
             \o Labels(population, cum_counts, s + 1, total)

(* [population[bisect(cum_counts, s)] for s in selections] *)
Selected(label) ==
    {<<label[p[1] + 1], label[p[2] + 1]>> : p \in Selections(Len(label))}

(* every result random.sample can return *)
random_sample(population, counts) ==
    Selected(Labels(population, SubSeq(accumulate(counts), 1, Len(counts) - 1),
                    0, sum(counts)))

----------------------------------------------------------------------------
(* run_simulation *)

InitialConfigs(sp, pop) ==
    {c \in [1..Len(sp) -> 0..pop] : sum(c) <= pop}

(* any tuple of integers a caller can pass: shorter than the species list, *)
(* as long, or longer, negative counts included                            *)
AnyConfigs(sp, top) == UNION {[1..n -> (-1)..top] : n \in 0..(Len(sp) + 1)}

(* the initial configurations of exactly pop individuals *)
FullConfigs(sp, pop) == {c \in InitialConfigs(sp, pop) : sum(c) = pop}

(* lines 36-37 *)
Start(r, ic) ==
    /\ build = "ok"
    /\ pc[r] = "idle"
    /\ initial_config' = [initial_config EXCEPT ![r] = ic]
    /\ IF Len(ic) > Len(species)
       THEN /\ pc' = [pc EXCEPT ![r] = "raised"]
            /\ UNCHANGED <<config, interactions>>
       ELSE /\ pc' = [pc EXCEPT ![r] = "loop"]
            /\ config' = [config EXCEPT ![r] = Configuration(species, ic)]
            /\ interactions' = [interactions EXCEPT ![r] = 0]
    /\ UNCHANGED <<crn_string, build, network, sample, result>>

(* the loop body entered before the first stability test (a do-while) *)
DrawBeforeTest(r) ==
    /\ pc[r] = "loop"
    /\ interactions[r] = 0 \/ ~is_stable(config[r])
    /\ interactions' = [interactions EXCEPT ![r] = @ + 1]
    /\ IF sample_raises(species, config[r])
       THEN /\ pc' = [pc EXCEPT ![r] = "raised"]
            /\ UNCHANGED sample
       ELSE /\ pc' = [pc EXCEPT ![r] = "lookup"]
            /\ \E s \in random_sample(species, config[r]) :
                  sample' = [sample EXCEPT ![r] = s]
    /\ UNCHANGED <<crn_string, build, network, initial_config, config, result>>

(* lines 38-40: the loop test, the increment and the draw *)
Draw(r) ==
    /\ pc[r] = "loop"
    /\ ~is_stable(config[r])
    /\ interactions' = [interactions EXCEPT ![r] = @ + 1]
    /\ IF sample_raises(species, config[r])
       THEN /\ pc' = [pc EXCEPT ![r] = "raised"]
            /\ UNCHANGED sample
       ELSE /\ pc' = [pc EXCEPT ![r] = "lookup"]
            /\ \E s \in random_sample(species, config[r]) :
                  sample' = [sample EXCEPT ![r] = s]
    /\ UNCHANGED <<crn_string, build, network, initial_config, config, result>>

(* the lookup with the drawn pair put in canonical (sorted) order *)
LookupCanonical(r) ==
    LET key == IF sample[r][1] <= sample[r][2] THEN sample[r]
               ELSE <<sample[r][2], sample[r][1]>>
    IN  /\ pc[r] = "lookup"
        /\ IF key \in DOMAIN reactions
           THEN /\ config' = [config EXCEPT ![r] = Configuration_add(@, reactions[key])]
                /\ pc' = [pc EXCEPT ![r] = "loop"]
                /\ sample' = [sample EXCEPT ![r] = <<>>]
           ELSE /\ pc' = [pc EXCEPT ![r] = "missing"]
                /\ UNCHANGED <<config, sample>>
        /\ UNCHANGED <<crn_string, build, network, initial_config, interactions, result>>

(* line 41, key present: config += crn.reactions[sample];                  *)
(* key absent: defaultdict.__getitem__ goes to __missing__                  *)
Lookup(r) ==
    /\ pc[r] = "lookup"
    /\ IF sample[r] \in DOMAIN reactions
       THEN /\ config' = [config EXCEPT ![r] = Configuration_add(@, reactions[sample[r]])]
            /\ pc' = [pc EXCEPT ![r] = "loop"]
            /\ sample' = [sample EXCEPT ![r] = <<>>]
       ELSE /\ pc' = [pc EXCEPT ![r] = "missing"]
            /\ UNCHANGED <<config, sample>>
    /\ UNCHANGED <<crn_string, build, network, initial_config, interactions, result>>

(* the requirement list kept in step with the keys of the rule mapping *)
MissingAddsRequirement(r) ==
    /\ pc[r] = "missing"
    /\ reactions' = SetItem(reactions, sample[r], ZeroConfiguration(species))
    /\ _minimal_reactants' = Append(_minimal_reactants, Counter(species, sample[r]))
    /\ config' = [config EXCEPT ![r] = Configuration_add(@, ZeroConfiguration(species))]
    /\ pc' = [pc EXCEPT ![r] = "loop"]
    /\ sample' = [sample EXCEPT ![r] = <<>>]
    /\ UNCHANGED <<crn_string, build, species,
                   initial_config, interactions, result>>

(* line 21 and line 41: __missing__ stores default_factory() under the key *)
(* and returns it                                                          *)
Missing(r) ==
    /\ pc[r] = "missing"
    /\ reactions' = SetItem(reactions, sample[r], ZeroConfiguration(species))
    /\ config' = [config EXCEPT ![r] = Configuration_add(@, ZeroConfiguration(species))]
    /\ pc' = [pc EXCEPT ![r] = "loop"]
    /\ sample' = [sample EXCEPT ![r] = <<>>]
    /\ UNCHANGED <<crn_string, build, species, _minimal_reactants,
                   initial_config, interactions, result>>

(* line 42: interactions / (sum(initial_config) or 1) *)
Denominator(ic) == IF sum(ic) = 0 THEN 1 ELSE sum(ic)

(* the quotient taken over the population at the end of the run *)
ReturnOverCurrentPopulation(r) ==
    /\ pc[r] = "loop"
    /\ is_stable(config[r])
    /\ result' = [result EXCEPT ![r] = <<interactions[r], Denominator(config[r])>>]
    /\ pc' = [pc EXCEPT ![r] = "done"]
    /\ UNCHANGED <<crn_string, build, network, initial_config, config, interactions, sample>>

Return(r) ==
    /\ pc[r] = "loop"
    /\ is_stable(config[r])
    /\ result' = [result EXCEPT ![r] = <<interactions[r], Denominator(initial_config[r])>>]
    /\ pc' = [pc EXCEPT ![r] = "done"]
    /\ UNCHANGED <<crn_string, build, network, initial_config, config, interactions, sample>>

----------------------------------------------------------------------------

Init ==
    /\ crn_string \in RuleTexts
    /\ build = "new"
    /\ species = <<>>
    /\ reactions = <<>>
    /\ _minimal_reactants = <<>>
    /\ pc = [r \in Runs |-> "idle"]
    /\ initial_config = [r \in Runs |-> <<>>]
    /\ config = [r \in Runs |-> <<>>]
    /\ interactions = [r \in Runs |-> 0]
    /\ sample = [r \in Runs |-> <<>>]
    /\ result = [r \in Runs |-> <<>>]

(* One run alone on the network. *)
Next ==
    \/ Build
    \/ pc[1] = "idle" /\ \E ic \in InitialConfigs(species, MaxPop) : Start(1, ic)
    \/ interactions[1] < MaxInteractions /\ Draw(1)
    \/ Lookup(1)
    \/ Missing(1)
    \/ Return(1)

Spec == Init /\ [][Next]_vars

(* One run alone on the network, handed any tuple of integers. *)
AnyArgumentNext ==
    \/ Build
    \/ pc[1] = "idle" /\ \E ic \in AnyConfigs(species, MaxAnyCount) : Start(1, ic)
    \/ interactions[1] < MaxInteractions /\ Draw(1)
    \/ Lookup(1)
    \/ Missing(1)
    \/ Return(1)

AnyArgumentSpec == Init /\ [][AnyArgumentNext]_vars

(* The runs of Runs interleave, statement by statement, on the network;    *)
(* as the trials of main do, they all start from one initial configuration. *)
SameStart(ic) == \A q \in Runs : pc[q] # "idle" => initial_config[q] = ic

ConcurrentNext ==
    \/ Build
    \/ \E r \in Runs :
          /\ pc[r] = "idle"
          /\ \E ic \in FullConfigs(species, MaxSharedPop) : SameStart(ic) /\ Start(r, ic)
    \/ \E r \in Runs : interactions[r] < MaxSharedInteractions /\ Draw(r)
    \/ \E r \in Runs : Lookup(r)
    \/ \E r \in Runs : Missing(r)
    \/ \E r \in Runs : Return(r)

ConcurrentInit == Init /\ crn_string \in SharedTexts

ConcurrentSpec == ConcurrentInit /\ [][ConcurrentNext]_vars

(* One run of the majority network from MajorityStart. *)
MajorityInit == Init /\ crn_string = Majority

MajorityNext ==
    \/ Build
    \/ Start(1, MajorityStart)
    \/ interactions[1] < MaxMajorityInteractions /\ Draw(1)
    \/ Lookup(1)
    \/ Missing(1)
    \/ Return(1)

MajoritySpec == MajorityInit /\ [][MajorityNext]_vars

----------------------------------------------------------------------------
(* Properties *)

Started(r) == pc[r] \in {"loop", "lookup", "missing", "done"}

TwoReactantRules == \A l \in DOMAIN crn_string : Len(crn_string[l][1]) = 2

(* the configurations the stability test is compared on *)
ConfigSpace == [1..Len(species) -> 0..MaxPop]

(* C1: while run_simulation runs on a network whose rules all have two     *)
(* reactants, from an initial configuration without negative counts, no    *)
(* component of the working configuration is ever negative.                *)
C1_NeverNegative ==
    (build = "ok" /\ TwoReactantRules) =>
        \A r \in Runs :
            (Started(r) /\ \A i \in DOMAIN initial_config[r] : initial_config[r][i] >= 0)
                => \A i \in DOMAIN config[r] : config[r][i] >= 0

(* a rule has consumed the last individual of a species *)
C1_Witness ==
    /\ build = "ok" /\ TwoReactantRules
    /\ pc[1] = "loop" /\ interactions[1] >= 2
    /\ \E i \in DOMAIN config[1] : config[1][i] = 0 /\ initial_config[1][i] > 0

(* the requirement vector of the rule on line l: how often each species    *)
(* occurs among its reactants                                              *)
Requirement(l) ==
    [i \in 1..Len(species) |->
        Cardinality({j \in DOMAIN crn_string[l][1] : crn_string[l][1][j] = species[i]})]

Satisfied(req, c) == \A i \in 1..Len(species) : req[i] <= c[i]

(* C2: is_stable(config) is true exactly when no requirement vector of a   *)
(* rule of the text is component-wise <= config, that is when every        *)
(* requirement has a species whose count in config is strictly smaller.    *)
C2_StableIffNoRequirementMet ==
    build = "ok" =>
        \A c \in ConfigSpace :
            /\ is_stable(c) <=> ~ \E l \in DOMAIN crn_string : Satisfied(Requirement(l), c)
            /\ is_stable(c) <=>
                   \A l \in DOMAIN crn_string :
                       \E i \in 1..Len(species) : c[i] < Requirement(l)[i]

(* a run found its configuration unstable, drew pairs without a rule, and  *)
(* later found it stable                                                   *)
C2_Witness ==
    /\ pc[1] = "done" /\ interactions[1] >= 1
    /\ DOMAIN reactions # {crn_string[l][1] : l \in DOMAIN crn_string}

(* the ordered pairs of labels of two different individuals of c *)
DistinctIndividualPairs(c) ==
    {<<species[x], species[y]>> : <<x, y>> \in
        {q \in (1..Len(species)) \X (1..Len(species)) :
            c[q[1]] >= 1 /\ c[q[2]] >= 1 /\ (q[1] = q[2] => c[q[1]] >= 2)}}

(* C3: the pair drawn in a step is the pair of labels of two different     *)
(* individuals of the current population (a species of count 1 is never    *)
(* paired with itself), and every such pair can be drawn.                  *)
C3_DrawsDistinctIndividuals ==
    \A r \in Runs :
        /\ pc[r] \in {"lookup", "missing"} => sample[r] \in DistinctIndividualPairs(config[r])
        /\ (pc[r] = "loop" /\ ~is_stable(config[r]) /\ ~sample_raises(species, config[r]))
              => random_sample(species, config[r]) = DistinctIndividualPairs(config[r])

(* a pair of two individuals of one species was drawn while another        *)
(* species had exactly one individual                                      *)
C3_Witness ==
    /\ pc[1] = "lookup"
    /\ sample[1][1] = sample[1][2]
    /\ \E i \in DOMAIN config[1] : config[1][i] = 1

(* the lines of the text whose reactants are exactly the tuple key *)
LinesOf(key) == {l \in DOMAIN crn_string : crn_string[l][1] = key}

Occurrences(names, x) == Cardinality({j \in DOMAIN names : names[j] = x})

(* products minus reactants of line l, per species *)
RuleDelta(l) ==
    [i \in 1..Len(species) |->
        Occurrences(crn_string[l][2], species[i]) - Occurrences(crn_string[l][1], species[i])]

Plus(c, d) == [i \in 1..Len(species) |-> c[i] + d[i]]

(* C4: every iteration counts one interaction, whatever pair is drawn, and *)
(* changes the configuration by the delta of a rule whose reactants are    *)
(* the drawn ordered pair exactly as written; when the text has no rule    *)
(* for that ordered pair the configuration stays as it is.                 *)
C4_AppliesRuleOfExactPair ==
    [][\A r \in Runs :
        /\ (pc[r] = "loop" /\ pc'[r] \in {"lookup", "raised"})
              => (interactions'[r] = interactions[r] + 1 /\ config'[r] = config[r])
        /\ (pc[r] = "lookup" /\ pc'[r] = "missing")
              => (LinesOf(sample[r]) = {} /\ config'[r] = config[r]
                    /\ interactions'[r] = interactions[r])
        /\ (pc[r] \in {"lookup", "missing"} /\ pc'[r] = "loop")
              => /\ interactions'[r] = interactions[r]
                 /\ IF LinesOf(sample[r]) = {}
                    THEN config'[r] = config[r]
                    ELSE \E l \in LinesOf(sample[r]) :
                            config'[r] = Plus(config[r], RuleDelta(l))
    ]_vars

(* the pair (B, A) was drawn on a network with a rule for A+B and none for *)
(* B+A: the interaction is counted and the configuration is unchanged      *)
C4_Witness ==
    /\ pc[1] = "missing" /\ interactions[1] = 1
    /\ sample[1] = <<B, A>>
    /\ LinesOf(<<A, B>>) # {} /\ LinesOf(<<B, A>>) = {}
    /\ config[1] = initial_config[1]

(* C5: an interaction is only ever performed from a configuration that is  *)
(* not stable, the loop ends in a stable configuration, and a run whose    *)
(* initial configuration is stable performs 0 interactions and returns 0.  *)
C5_NoInteractionWhenStable ==
    \A r \in Runs :
        /\ pc[r] \in {"lookup", "missing"} => ~is_stable(config[r])
        /\ pc[r] = "done" => is_stable(config[r])
        /\ (Started(r) /\ is_stable(Configuration(species, initial_config[r])))
              => interactions[r] = 0
        /\ (pc[r] = "done" /\ is_stable(Configuration(species, initial_config[r])))
              => result[r][1] = 0

(* a run returned 0 from a stable population of two or more individuals *)
C5_Witness ==
    /\ pc[1] = "done" /\ result[1][1] = 0
    /\ sum(initial_config[1]) >= 2
    /\ is_stable(Configuration(species, initial_config[1]))

(* C6: on the four-rule majority network the total population of a run is  *)
(* after every interaction what it was in the initial configuration.       *)
C6_MajorityConservesPopulation ==
    crn_string = Majority =>
        \A r \in Runs : Started(r) => sum(config[r]) = sum(initial_config[r])

(* a majority run ended after rules changed its configuration *)
C6_Witness ==
    /\ crn_string = Majority
    /\ pc[1] = "done" /\ interactions[1] >= 2
    /\ config[1] # initial_config[1]

(* the delta line 41 adds for the drawn pair s in the current state *)
LookedUp(s) == IF s \in DOMAIN reactions THEN reactions[s] ELSE ZeroConfiguration(species)

(* the distance of a majority configuration from consensus: the undecided  *)
(* individuals, and twice the individuals of the smaller camp              *)
Rank(c) == c[3] + 2 * Min(c[1], c[2])

(* C7: the run of the majority network from (A=10, B=10, U=0) terminates   *)
(* under fair choice of the drawn pairs.  The configurations of the run    *)
(* are finitely many (20 individuals, no negative count), and in every     *)
(* state the loop can reach: the draw never fails; if the configuration is *)
(* not stable, some pair that can be drawn brings it strictly closer to    *)
(* consensus (Rank decreases, and Rank is never negative), so that a       *)
(* stable configuration stays within Rank(config) draws, each of positive  *)
(* probability; and the value returned is a non-negative number over a     *)
(* positive denominator.                                                   *)
C7_MajorityTerminates ==
    /\ pc[1] # "raised"
    /\ Started(1) =>
          /\ sum(config[1]) = sum(MajorityStart)
          /\ \A i \in DOMAIN config[1] : config[1][i] >= 0
          /\ Rank(config[1]) >= 0
          /\ Rank(config[1]) = 0 => is_stable(config[1])
    /\ (pc[1] = "loop" /\ ~is_stable(config[1])) =>
          /\ ~sample_raises(species, config[1])
          /\ \E s \in random_sample(species, config[1]) :
                 Rank(Configuration_add(config[1], LookedUp(s))) < Rank(config[1])
    /\ pc[1] = "done" => (result[1][1] >= 0 /\ result[1][2] > 0)

(* the run returned after the 20 interactions a consensus needs at least *)
C7_Witness ==
    /\ initial_config[1] = MajorityStart
    /\ pc[1] = "done"
    /\ result[1] = <<20, 20>>
    /\ config[1] \in {<<20, 0, 0>>, <<0, 20, 0>>}

(* C8: after construction no step of any run changes the network: its     *)
(* species order, the keys and deltas of its rule mapping, and its         *)
(* requirement list stay as constructed.                                   *)
C8_NetworkImmutable == [][build = "ok" => network' = network]_vars

(* what a run alone is given for the pair s: the delta stored by the       *)
(* constructor, or zero                                                    *)
AloneDelta(s) ==
    LET built == ParseReactions(species, crn_string, <<>>)
    IN  IF s \in DOMAIN built THEN built[s] ELSE ZeroConfiguration(species)

(* the stability verdict on the requirement list the constructor built *)
AloneStable(c) ==
    \A k \in 1..Len(MinimalReactants(species, crn_string)) :
        UnderSupplied(c, MinimalReactants(species, crn_string)[k])

(* C9: when runs interleave on one network, a step of one run leaves the   *)
(* configuration, counter, draw and result of every other run as they      *)
(* were, and every run applies for each draw the delta, and takes on each  *)
(* loop test the stability verdict, that it would running alone.           *)
C9_RunsDoNotInterfere ==
    [][\A r \in Runs :
        /\ pc'[r] = pc[r] =>
              /\ config'[r] = config[r]
              /\ interactions'[r] = interactions[r]
              /\ sample'[r] = sample[r]
              /\ result'[r] = result[r]
              /\ initial_config'[r] = initial_config[r]
        /\ (pc[r] \in {"lookup", "missing"} /\ pc'[r] = "loop")
              => config'[r] = Configuration_add(config[r], AloneDelta(sample[r]))
        /\ (pc[r] = "loop" /\ pc'[r] # "loop")
              => (pc'[r] = "done" <=> AloneStable(config[r]))
    ]_vars

(* both runs are inside __missing__ for the same pair at once, after one   *)
(* of them has applied a rule                                              *)
C9_Witness ==
    /\ pc[1] = "missing" /\ pc[2] = "missing"
    /\ sample[1] = sample[2]
    /\ config[1] # initial_config[1]

DuplicateReactants ==
    \E l1, l2 \in DOMAIN crn_string : l1 # l2 /\ crn_string[l1][1] = crn_string[l2][1]

(* C10: the constructor does not return a network for a text in which two  *)
(* lines have the same ordered reactant pair.                              *)
C10_DuplicateRuleRejected == DuplicateReactants => build # "ok"

(* some line of the text is not of the form  R1 + R2 -> products *)
MalformedLine ==
    \E l \in DOMAIN crn_string :
        Len(crn_string[l]) # 2 \/ Len(crn_string[l][1]) # 2

(* C11: the constructor does not return a network for a text with a line   *)
(* whose reactant side is not exactly two species, or with a line that     *)
(* has no "->" or more than one.                                           *)
C11_MalformedRuleRejected == MalformedLine => build # "ok"

(* the argument is longer than the species list or has a negative count *)
InvalidConfiguration(ic) ==
    Len(ic) > Len(species) \/ \E i \in DOMAIN ic : ic[i] < 0

(* C12: a run handed an initial configuration that is longer than the      *)
(* species list, or that has a negative count, performs no interaction     *)
(* and returns no result.                                                  *)
C12_InvalidConfigurationRejected ==
    \A r \in Runs :
        (pc[r] # "idle" /\ InvalidConfiguration(initial_config[r]))
            => (pc[r] # "done" /\ interactions[r] = 0)

(* C13: on a constructed network every configuration of fewer than two    *)
(* individuals is stable, so that whenever the loop goes on to draw a pair *)
(* the population holds at least two individuals and the draw succeeds.    *)
C13_SmallPopulationStable ==
    build = "ok" =>
        /\ \A c \in ConfigSpace : sum(c) < 2 => is_stable(c)
        /\ \A r \in Runs :
              (pc[r] = "loop" /\ ~is_stable(config[r]))
                  => (sum(config[r]) >= 2 /\ ~sample_raises(species, config[r]))

(* C14: on a network whose only rule is X + X -> ..., a configuration is   *)
(* stable exactly when it holds fewer than two individuals of X, whatever  *)
(* the counts of the other species.                                        *)
C14_SelfPairNeedsTwo ==
    build = "ok" =>
        \A x \in DOMAIN species :
            (Len(crn_string) = 1 /\ crn_string[1][1] = <<species[x], species[x]>>)
                => \A c \in ConfigSpace : is_stable(c) <=> c[x] < 2

(* a run on such a network ended with one individual of X left among      *)
(* others, after the rule had consumed a pair                              *)
C14_Witness ==
    /\ crn_string = Pairing
    /\ pc[1] = "done" /\ interactions[1] >= 1
    /\ config[1][2] = 1 /\ sum(config[1]) >= 2

Max(a, b) == IF a >= b THEN a ELSE b

(* C15: the counter starts at 0 and grows by exactly 1 in every iteration  *)
(* of the loop, at the draw, whatever the lookup then adds (a rule's       *)
(* delta or zero); the value returned is the counter over                  *)
(* max(1, sum of the initial counts): the quotients are equal, and for an  *)
(* initial configuration without negative total the denominator is that    *)
(* maximum itself, the population at the start and not the current one.    *)
C15_InteractionsPerInitialIndividual ==
    [][\A r \in Runs :
        /\ (pc[r] = "idle" /\ pc'[r] = "loop") => interactions'[r] = 0
        /\ (pc[r] = "loop" /\ pc'[r] \in {"lookup", "raised"})
              => interactions'[r] = interactions[r] + 1
        /\ pc[r] \in {"lookup", "missing", "done"} => interactions'[r] = interactions[r]
        /\ (pc[r] = "loop" /\ pc'[r] = "done") =>
              /\ interactions'[r] = interactions[r]
              /\ result'[r][1] = interactions[r]
              /\ result'[r][2] # 0
              /\ result'[r][1] * Max(1, sum(initial_config[r]))
                    = interactions[r] * result'[r][2]
              /\ sum(initial_config[r]) >= 0
                    => result'[r][2] = Max(1, sum(initial_config[r]))
        /\ pc[r] = "done" => result'[r] = result[r]
    ]_vars

(* a run on a network that shrinks the population returned 3 interactions  *)
(* over its 3 initial individuals, one of the interactions a lookup of a   *)
(* pair without a rule, with a single individual left                      *)
C15_Witness ==
    /\ crn_string = Shrinking
    /\ pc[1] = "done" /\ result[1] = <<3, 3>>
    /\ sum(config[1]) = 1
    /\ DOMAIN reactions # {crn_string[l][1] : l \in DOMAIN crn_string}

(* the ordered reactant tuples the text defines a rule for *)
DefinedReactants == {crn_string[l][1] : l \in DOMAIN crn_string}

(* C16: on a constructed network, for every line R1 + R2 -> P1 + ... + Pk  *)
(* of the text the delta stored under (R1, R2) is, per species, the        *)
(* occurrences among the products minus the occurrences among the          *)
(* reactants, and the requirement list holds the occurrences among the     *)
(* reactants; the list has exactly one entry per ordered reactant tuple    *)
(* that the text defines, in the order of their first lines.               *)
C16_StoredDeltaAndRequirement ==
    build = "ok" =>
        /\ \A l \in DOMAIN crn_string :
              Len(crn_string[l][1]) = 2 =>
                  /\ crn_string[l][1] \in DOMAIN reactions
                  /\ reactions[crn_string[l][1]] = RuleDelta(l)
                  /\ \E k \in DOMAIN _minimal_reactants :
                         _minimal_reactants[k] = Requirement(l)
        /\ Len(_minimal_reactants) = Cardinality(DefinedReactants)
        /\ \A k \in DOMAIN _minimal_reactants :
              \E l \in DOMAIN crn_string :
                  /\ _minimal_reactants[k] = Requirement(l)
                  /\ Cardinality({crn_string[j][1] : j \in 1..l}) = k

(* the ordered pairs line 40 can return from the configuration c: none     *)
(* when the draw fails                                                     *)
Drawable(c) == IF sample_raises(species, c) THEN {} ELSE random_sample(species, c)

(* C17: on a network whose rules all have two reactants, and for every     *)
(* configuration without negative counts (here: every population of up to  *)
(* MaxPop individuals), is_stable is false exactly when                    *)
(* some ordered pair that can be drawn from the configuration has a rule   *)
(* in the text; in a stable configuration whatever pair is drawn, the      *)
(* lookup adds zero.                                                       *)
C17_StabilityAgreesWithSampler ==
    (build = "ok" /\ TwoReactantRules) =>
        \A c \in InitialConfigs(species, MaxPop) :
            LET drawn == Drawable(c) IN
            /\ ~is_stable(c) <=> \E s \in drawn : LinesOf(s) # {}
            /\ is_stable(c) =>
                  \A s \in drawn : Configuration_add(c, LookedUp(s)) = c

(* a run ended in a stable population from which pairs can be drawn, none  *)
(* of them with a rule, after a rule had fired                             *)
C17_Witness ==
    /\ build = "ok" /\ TwoReactantRules
    /\ pc[1] = "done" /\ config[1] # initial_config[1]
    /\ Drawable(config[1]) # {}
    /\ \A s \in Drawable(config[1]) : LinesOf(s) = {}

(* C18: in a run of the majority network started with at least one A or B *)
(* individual there is at least one A or B individual in every             *)
(* configuration, and every stable configuration of the run is a           *)
(* consensus: no U, and the whole initial population in A alone or in B    *)
(* alone.                                                                  *)
C18_MajorityEndsInConsensus ==
    crn_string = Majority =>
        \A r \in Runs :
            (Started(r) /\ initial_config[r][A] + initial_config[r][B] >= 1) =>
                /\ config[r][A] + config[r][B] >= 1
                /\ (pc[r] \in {"loop", "done"} /\ is_stable(config[r])) =>
                      /\ config[r][U] = 0
                      /\ \/ config[r][A] = sum(initial_config[r]) /\ config[r][B] = 0
                         \/ config[r][B] = sum(initial_config[r]) /\ config[r][A] = 0

(* a majority run that started with both opinions present ended with all   *)
(* its individuals of one opinion                                          *)
C18_Witness ==
    /\ crn_string = Majority
    /\ pc[1] = "done"
    /\ initial_config[1][A] >= 1 /\ initial_config[1][B] >= 1
    /\ config[1][U] = 0 /\ config[1][A] * config[1][B] = 0
    /\ config[1][A] + config[1][B] = sum(initial_config[1])

(* C19: on a constructed network the verdict of is_stable on a             *)
(* configuration is the one the requirements of the text's rules give,     *)
(* and no step of any run changes it, a lookup of a pair without a rule    *)
(* included.                                                               *)
C19_VerdictDependsOnTextOnly ==
    [][build = "ok" =>
        LET built == MinimalReactants(species, crn_string) IN
        \A c \in ConfigSpace :
            /\ is_stable(c) <=> \A k \in 1..Len(built) : UnderSupplied(c, built[k])
            /\ is_stable(c)' <=> is_stable(c)
    ]_vars

(* in the majority network the pair (A, A) has been looked up, the rule    *)
(* mapping holds it as a key, and a run has ended in an all-A              *)
(* configuration                                                           *)
C19_Witness ==
    /\ crn_string = Majority
    /\ <<A, A>> \in DOMAIN reactions
    /\ \E r \in Runs :
          /\ pc[r] = "done" /\ interactions[r] >= 1
          /\ config[r][A] >= 2 /\ config[r][B] = 0 /\ config[r][U] = 0

====
